---- MODULE Spec2Model ----
(***************************************************************************)
(* Date-format detection, parsing, formatting and range helpers of         *)
(* src/utils/date_utils.py, modelled as a state machine over the           *)
(* arguments and outcomes of its operations.                               *)
(*                                                                         *)
(* A text is a sequence of one-character strings.  The alphabet of the     *)
(* model is the ten ASCII digits, the separators "/", "-", ".", the space  *)
(* and a few lower-case letters.  Within that alphabet Python's \d,        *)
(* str.isdigit and int() agree on what a digit is.                         *)
(***************************************************************************)
EXTENDS Integers, Sequences, FiniteSets, TLC

VARIABLES
    page,         \* page content: per selector, its elements' text or a raise
    dt,           \* a datetime held by the caller (argument of strftime)
    format,       \* the format / target argument of the formatting call
    date_str,     \* the date_str argument
    start_str,    \* the start_str argument
    end_str,      \* the end_str argument
    format_hint,  \* the format_hint argument of parse_date
    dates_found,  \* local list of detect_page_date_format
    filled,       \* the value of the page's date inputs, by selector attribute
    op,           \* the operation that ran last
    ret           \* its outcome: a returned value or a raised error

\* BasePage.retry_on_failure
VARIABLES
    max_attempts, \* the max_attempts argument
    delay,        \* the delay argument
    attempt,      \* the loop variable: the index of the next iteration
    last_error,   \* the local last_error
    retry_log,    \* what happened so far: calls of func and waits, in order
    retry_pc,     \* "idle", "loop" or "done"
    retry_ret     \* the outcome of retry_on_failure

\* AltoroApiClient and the backoff decorator of authenticate
VARIABLES
    token,        \* self._token
    session_auth, \* the Authorization header of self.session
    tries,        \* the decorator's count of calls of authenticate's body
    auth_log,     \* the outcome of every session.post so far, and the sleeps
    auth_pc,      \* "idle" or "try"
    auth_ret      \* what the last call of authenticate gave its caller

\* main.run and run_automation
VARIABLES
    headless,     \* the --headless option
    browser,      \* "none", "open" or "closed"
    context,      \* "none", "open" or "closed"
    run_page,     \* the page of context.new_page(), 0 before
    parts_run,    \* the workflows run so far: part number and page given
    pending,      \* the exception in flight, NoValue when none
    closed,       \* the close() calls made, in order
    run_pc,       \* the statement run_automation or run is at
    exit_status   \* the status the command exited with, -1 while running

dateVars == <<page, dt, format, date_str, start_str, end_str, format_hint,
              dates_found, filled, op, ret>>

retryVars == <<max_attempts, delay, attempt, last_error, retry_log, retry_pc,
               retry_ret>>

authVars == <<token, session_auth, tries, auth_log, auth_pc, auth_ret>>

runVars == <<headless, browser, context, run_page, parts_run, pending, closed,
             run_pc, exit_status>>

vars == <<dateVars, retryVars, authVars, runVars>>

----------------------------------------------------------------------------
(* Characters and texts *)

Digits == {"0", "1", "2", "3", "4", "5", "6", "7", "8", "9"}

Seps == {"/", "-", "."}

Letters == {"n", "o", "t", "a", "d", "e", "x"}

DigitVal(c) ==
    CASE c = "0" -> 0 [] c = "1" -> 1 [] c = "2" -> 2 [] c = "3" -> 3
      [] c = "4" -> 4 [] c = "5" -> 5 [] c = "6" -> 6 [] c = "7" -> 7
      [] c = "8" -> 8 [] c = "9" -> 9

DigitChar(n) ==
    CASE n = 0 -> "0" [] n = 1 -> "1" [] n = 2 -> "2" [] n = 3 -> "3"
      [] n = 4 -> "4" [] n = 5 -> "5" [] n = 6 -> "6" [] n = 7 -> "7"
      [] n = 8 -> "8" [] n = 9 -> "9"

\* str.isdigit(): non-empty and every character a digit
IsDigits(s) == Len(s) > 0 /\ \A i \in 1..Len(s) : s[i] \in Digits

RECURSIVE DecVal(_)
DecVal(s) ==
    IF s = <<>> THEN 0
    ELSE 10 * DecVal(SubSeq(s, 1, Len(s) - 1)) + DigitVal(s[Len(s)])

\* s[i:j] of Python with 0 <= i <= j (1-based SubSeq, clipped to the text)
Slice(s, i, j) ==
    LET hi == IF j > Len(s) THEN Len(s) ELSE j
    IN  IF i >= hi THEN <<>> ELSE SubSeq(s, i + 1, hi)

RECURSIVE LStrip(_)
LStrip(s) == IF s # <<>> /\ s[1] = " " THEN LStrip(Tail(s)) ELSE s

RECURSIVE RStrip(_)
RStrip(s) ==
    IF s # <<>> /\ s[Len(s)] = " " THEN RStrip(SubSeq(s, 1, Len(s) - 1)) ELSE s

\* int(s) succeeds: surrounding whitespace is ignored, the rest is digits
IntOk(s) == IsDigits(RStrip(LStrip(s)))

IntVal(s) == DecVal(RStrip(LStrip(s)))

\* positions of the characters of s that are in set cs, ascending
SepPositions(s, cs) == {i \in 1..Len(s) : s[i] \in cs}

\* the k-th smallest element of a finite set of integers
RECURSIVE KthOf(_, _)
KthOf(S, k) ==
    LET m == CHOOSE x \in S : \A y \in S : x <= y
    IN  IF k = 1 THEN m ELSE KthOf(S \ {m}, k - 1)

\* re.split(r"[/\-\.]", s): the parts between the separator characters
ReSplit(s, cs) ==
    LET P == SepPositions(s, cs)
        n == Cardinality(P)
        cut(k) == IF k = 0 THEN 0 ELSE IF k = n + 1 THEN Len(s) + 1 ELSE KthOf(P, k)
    IN  [k \in 1..(n + 1) |-> Slice(s, cut(k - 1), cut(k) - 1)]

\* zero-padded decimal rendering of n in w digits (n < 10^w)
RECURSIVE Pad(_, _)
Pad(n, w) ==
    IF w = 0 THEN <<>> ELSE Append(Pad(n \div 10, w - 1), DigitChar(n % 10))

----------------------------------------------------------------------------
(* Calendar: what datetime(year, month, day) accepts *)

IsLeap(y) == (y % 4 = 0) /\ ((y % 100 # 0) \/ (y % 400 = 0))

DaysInMonth(y, m) ==
    IF m = 2 THEN (IF IsLeap(y) THEN 29 ELSE 28)
    ELSE IF m \in {4, 6, 9, 11} THEN 30 ELSE 31

ValidYMD(y, m, d) ==
    /\ y >= 1 /\ y <= 9999
    /\ m >= 1 /\ m <= 12
    /\ d >= 1 /\ d <= DaysInMonth(y, m)

\* a datetime value; tz is <<>> when naive, else <<UTC offset in seconds>>
DateTime(y, m, d, hh, mm, ss, tz) ==
    [year |-> y, month |-> m, day |-> d, hour |-> hh, minute |-> mm,
     second |-> ss, tz |-> tz]

Naive == <<>>

Midnight(y, m, d) == DateTime(y, m, d, 0, 0, 0, Naive)

\* outcomes of a call
Returned(v) == [kind |-> "return", value |-> v]

\* exc: the exception class; msg: the message template; arg: the text the
\* message quotes (<<>> with quoted = FALSE when it quotes nothing)
Raised(exc, msg, quoted, arg) ==
    [kind |-> "raise", exc |-> exc, msg |-> msg, quoted |-> quoted, arg |-> arg]

NoValue == [kind |-> "none"]

----------------------------------------------------------------------------
(* datetime.strptime and datetime.strftime, for the formats the code uses *)

NonZeroDigits == Digits \ {"0"}

\* length of the prefix of c that a directive's regular expression takes
\* (_strptime's %Y, %m, %d groups, alternatives in their order); 0: no match
PrefixLen(dir, c) ==
    LET n == Len(c)
    IN  CASE dir = "Y" ->
               IF n >= 4 /\ IsDigits(SubSeq(c, 1, 4)) THEN 4 ELSE 0
          [] dir = "m" ->
               IF n >= 2 /\ c[1] = "1" /\ c[2] \in {"0", "1", "2"} THEN 2
               ELSE IF n >= 2 /\ c[1] = "0" /\ c[2] \in NonZeroDigits THEN 2
               ELSE IF n >= 1 /\ c[1] \in NonZeroDigits THEN 1
               ELSE 0
          [] dir = "d" ->
               IF n >= 2 /\ c[1] = "3" /\ c[2] \in {"0", "1"} THEN 2
               ELSE IF n >= 2 /\ c[1] \in {"1", "2"} /\ c[2] \in Digits THEN 2
               ELSE IF n >= 2 /\ c[1] = "0" /\ c[2] \in NonZeroDigits THEN 2
               ELSE IF n >= 1 /\ c[1] \in NonZeroDigits THEN 1
               ELSE IF n >= 2 /\ c[1] = " " /\ c[2] \in NonZeroDigits THEN 2
               ELSE 0

\* a field followed by a literal separator must be taken whole
FullMatch(dir, a) == Len(a) > 0 /\ PrefixLen(dir, a) = Len(a)

\* the separator and the directive order of a strptime/strftime format
FmtSep(fmt) ==
    CASE fmt \in {"%Y-%m-%d", "%d-%m-%Y", "%m-%d-%Y"} -> "-"
      [] fmt \in {"%d/%m/%Y", "%m/%d/%Y", "%Y/%m/%d"} -> "/"

FmtOrder(fmt) ==
    CASE fmt \in {"%Y-%m-%d", "%Y/%m/%d"} -> <<"Y", "m", "d">>
      [] fmt \in {"%d/%m/%Y", "%d-%m-%Y"} -> <<"d", "m", "Y">>
      [] fmt \in {"%m/%d/%Y", "%m-%d-%Y"} -> <<"m", "d", "Y">>

\* the date check that ends strptime: datetime(year, month, day) must exist
StrptimeDate(y, m, d) ==
    IF y < 1 THEN Raised("ValueError", "year 0 is out of range", FALSE, <<>>)
    ELSE IF d > DaysInMonth(y, m)
    THEN Raised("ValueError", "day is out of range for month", FALSE, <<>>)
    ELSE Returned(Midnight(y, m, d))

\* the value of directive x among the three fields a, b, c of order ord
FieldOf(x, ord, a, b, c) ==
    IntVal(IF ord[1] = x THEN a ELSE IF ord[2] = x THEN b ELSE c)

\* a matching that accepts the date at the start of s and drops what follows
StrptimeFieldsPartial(s, ord, a, b, c) ==
    IF ~FullMatch(ord[1], a) \/ ~FullMatch(ord[2], b) \/ PrefixLen(ord[3], c) = 0
    THEN Raised("ValueError", "time data does not match format", TRUE, s)
    ELSE StrptimeDate(FieldOf("Y", ord, a, b, Slice(c, 0, PrefixLen(ord[3], c))),
                      FieldOf("m", ord, a, b, Slice(c, 0, PrefixLen(ord[3], c))),
                      FieldOf("d", ord, a, b, Slice(c, 0, PrefixLen(ord[3], c))))

\* the three fields against the directives of the format
StrptimeFields(s, ord, a, b, c) ==
    IF ~FullMatch(ord[1], a) \/ ~FullMatch(ord[2], b) \/ PrefixLen(ord[3], c) = 0
    THEN Raised("ValueError", "time data does not match format", TRUE, s)
    ELSE IF PrefixLen(ord[3], c) < Len(c)
    THEN Raised("ValueError", "unconverted data remains", TRUE,
                Slice(c, PrefixLen(ord[3], c), Len(c)))
    ELSE StrptimeDate(FieldOf("Y", ord, a, b, c), FieldOf("m", ord, a, b, c),
                      FieldOf("d", ord, a, b, c))

\* s cut at the first two separators p1 < p2 of the format
StrptimeCut(s, ord, p1, p2) ==
    StrptimeFields(s, ord, Slice(s, 0, p1 - 1), Slice(s, p1, p2 - 1), Slice(s, p2, Len(s)))

\* P: the positions in s of the format's separator
StrptimeAt(s, ord, P) ==
    IF Cardinality(P) < 2
    THEN Raised("ValueError", "time data does not match format", TRUE, s)
    ELSE StrptimeCut(s, ord, KthOf(P, 1), KthOf(P, 2))

\* a strptime whose ISO format reads year-day-month
StrptimeIsoDayFirst(s, fmt) ==
    StrptimeAt(s, IF fmt = "%Y-%m-%d" THEN <<"Y", "d", "m">> ELSE FmtOrder(fmt),
               SepPositions(s, {FmtSep(fmt)}))

\* datetime.strptime(s, fmt): the compiled format is matched at the start of
\* s, text left over is an error, and the date must exist.
Strptime(s, fmt) == StrptimeAt(s, FmtOrder(fmt), SepPositions(s, {FmtSep(fmt)}))

\* decimal rendering without padding
RECURSIVE Unpadded(_)
Unpadded(n) ==
    IF n < 10 THEN <<DigitChar(n)>> ELSE Append(Unpadded(n \div 10), DigitChar(n % 10))

\* %Y of strftime: four digits from year 1000 on; below that the C library
\* decides whether the year is zero-padded (pads = TRUE) or not (glibc)
YearText(y, pads) == IF y >= 1000 \/ pads THEN Pad(y, 4) ELSE Unpadded(y)

\* dt.strftime(fmt) for the date-only formats
Strftime(d, fmt, pads) ==
    LET part(x) == CASE x = "Y" -> YearText(d.year, pads)
                     [] x = "m" -> Pad(d.month, 2)
                     [] x = "d" -> Pad(d.day, 2)
        ord == FmtOrder(fmt)
        sep == FmtSep(fmt)
    IN  part(ord[1]) \o <<sep>> \o part(ord[2]) \o <<sep>> \o part(ord[3])

----------------------------------------------------------------------------
(* dateutil.parser.parse(timestr, dayfirst=...), the fallback of parse_date  *)
(* and to_page_format.  Modelled for texts over digits, "/", "-", "." and    *)
(* lower-case words in which every digit run has at most four digits; no    *)
(* word of the model's alphabet is a month, weekday, h/m/s or zone name.    *)

\* parserinfo.JUMP, restricted to the alphabet
JumpTokens ==
    {<<" ">>, <<".">>, <<"-">>, <<"/">>, <<"a", "t">>, <<"o", "n">>,
     <<"a", "n", "d">>, <<"a", "d">>, <<"t">>, <<"n", "d">>}

\* parserinfo.AMPM, restricted to the alphabet: "a" is AM
IsAmPm(tok) == tok = <<"a">>

\* re.split("([.,])", token) without the empty pieces
RECURSIVE SplitDots(_, _)
SplitDots(tok, cur) ==
    IF tok = <<>> THEN (IF cur = <<>> THEN <<>> ELSE <<cur>>)
    ELSE IF tok[1] = "."
         THEN (IF cur = <<>> THEN <<>> ELSE <<cur>>) \o <<<<".">>>>
              \o SplitDots(Tail(tok), <<>>)
         ELSE SplitDots(Tail(tok), Append(cur, tok[1]))

DotCount(tok) == Cardinality(SepPositions(tok, {"."}))

\* _timelex.get_token from position j in lexer state st with token tok so far
RECURSIVE LexScan(_, _, _, _, _)
LexScan(s, j, st, tok, seen) ==
    LET stop == [tok |-> tok, next |-> j, st |-> st, seen |-> seen]
    IN  IF j > Len(s) THEN stop
        ELSE
          LET c == s[j]
              isw == c \in Letters
              isn == c \in Digits
              last == tok[Len(tok)]
          IN  CASE st = "a" ->
                     IF isw THEN LexScan(s, j + 1, "a", Append(tok, c), TRUE)
                     ELSE IF c = "." THEN LexScan(s, j + 1, "a.", Append(tok, c), TRUE)
                     ELSE [stop EXCEPT !.seen = TRUE]
                [] st = "0" ->
                     IF isn THEN LexScan(s, j + 1, "0", Append(tok, c), seen)
                     ELSE IF c = "." THEN LexScan(s, j + 1, "0.", Append(tok, c), seen)
                     ELSE stop
                [] st = "a." ->
                     IF c = "." \/ isw THEN LexScan(s, j + 1, "a.", Append(tok, c), TRUE)
                     ELSE IF isn /\ last = "."
                          THEN LexScan(s, j + 1, "0.", Append(tok, c), TRUE)
                     ELSE [stop EXCEPT !.seen = TRUE]
                [] st = "0." ->
                     IF c = "." \/ isn THEN LexScan(s, j + 1, "0.", Append(tok, c), seen)
                     ELSE IF isw /\ last = "."
                          THEN LexScan(s, j + 1, "a.", Append(tok, c), seen)
                     ELSE stop

\* _timelex.split: the tokens of s from position i on
RECURSIVE Timelex(_, _)
Timelex(s, i) ==
    IF i > Len(s) THEN <<>>
    ELSE
      LET c == s[i]
      IN  IF c \notin Letters /\ c \notin Digits
          THEN <<<<c>>>> \o Timelex(s, i + 1)
          ELSE
            LET r == LexScan(s, i + 1, IF c \in Letters THEN "a" ELSE "0", <<c>>, FALSE)
                split == /\ r.st \in {"a.", "0."}
                         /\ (r.seen \/ DotCount(r.tok) > 1 \/ r.tok[Len(r.tok)] = ".")
            IN  (IF split THEN SplitDots(r.tok, <<>>) ELSE <<r.tok>>)
                \o Timelex(s, r.next)

\* float(token) succeeds: a digit run, or two digit runs around one dot
IsFloat(tok) ==
    \/ IsDigits(tok)
    \/ /\ DotCount(tok) = 1
       /\ LET p == KthOf(SepPositions(tok, {"."}), 1)
          IN  IsDigits(Slice(tok, 0, p - 1)) /\ IsDigits(Slice(tok, p, Len(tok)))

\* 0-based position of the dot in a numeric token, -1 without one
DotAt(tok) == IF DotCount(tok) = 0 THEN -1 ELSE KthOf(SepPositions(tok, {"."}), 1) - 1

NumInt(tok) == IF DotAt(tok) < 0 THEN DecVal(tok) ELSE DecVal(Slice(tok, 0, DotAt(tok)))

NumHasFrac(tok) ==
    DotAt(tok) >= 0 /\ DecVal(Slice(tok, DotAt(tok) + 1, Len(tok))) > 0

\* the parse state: _ymd (values, century_specified, ystridx; 0 is None) and
\* the _result fields a numeric text can set (-1 is None)
ParseState0 ==
    [ok |-> TRUE, ymd |-> <<>>, century |-> FALSE, ystridx |-> 0,
     hour |-> -1, minute |-> -1, second |-> -1, tzoffset |-> <<>>]

Fail(R) == [R EXCEPT !.ok = FALSE]

\* _ymd.append(val, label) for a string val
YmdAppendStr(R, val, label) ==
    LET isY == (IsDigits(val) /\ Len(val) > 2) \/ label = "Y"
    IN  IF ~R.ok \/ ~IntOk(val) \/ (isY /\ R.ystridx # 0) THEN Fail(R)
        ELSE [R EXCEPT !.ymd = Append(R.ymd, IntVal(val)),
                       !.century = R.century \/ (IsDigits(val) /\ Len(val) > 2),
                       !.ystridx = IF isY THEN Len(R.ymd) + 1 ELSE R.ystridx]

\* _ymd.append(value) for the Decimal value of numeric token tok
YmdAppendNum(R, tok) ==
    LET v == NumInt(tok)
        isY == v > 100 \/ (v = 100 /\ NumHasFrac(tok))
    IN  IF ~R.ok \/ (isY /\ R.ystridx # 0) THEN Fail(R)
        ELSE [R EXCEPT !.ymd = Append(R.ymd, v),
                       !.century = R.century \/ isY,
                       !.ystridx = IF isY THEN Len(R.ymd) + 1 ELSE R.ystridx]

\* int(s) into a _result field
SetField(R, fld, s) ==
    IF ~R.ok \/ ~IntOk(s) THEN Fail(R) ELSE [R EXCEPT ![fld] = IntVal(s)]

\* parser._adjust_ampm(hour, 0): 12 AM is hour 0
AdjustAm(h) == IF h = 12 THEN 0 ELSE h

\* parser._parse_numeric_token(tokens, idx, ...): the state after the token
\* at idx (1-based) and the index the caller continues after
ParseNumericToken(l, idx, R) ==
    LET tok   == l[idx]
        n     == Len(tok)
        len_l == Len(l)
        v     == NumInt(tok)
        has(k) == idx + k <= len_l
        at(k)  == l[idx + k]
        out(R2, i2) == [R |-> R2, idx |-> i2]
    IN  IF Len(R.ymd) = 3 /\ n \in {2, 4} /\ R.hour = -1
        THEN \* 19990101T23[59]
             LET R1 == SetField(R, "hour", Slice(tok, 0, 2))
             IN  out(IF n = 4 THEN SetField(R1, "minute", Slice(tok, 2, n)) ELSE R1, idx)
        ELSE IF n = 6 \/ (n > 6 /\ DotAt(tok) = 6)
        THEN \* YYMMDD or HHMMSS[.ss]
             IF R.ymd = <<>> /\ DotAt(tok) < 0
             THEN out(YmdAppendStr(YmdAppendStr(YmdAppendStr(R,
                        Slice(tok, 0, 2), "None"), Slice(tok, 2, 4), "None"),
                        Slice(tok, 4, n), "None"), idx)
             ELSE LET sec == Slice(tok, 4, n)
                      whole == IF DotAt(sec) < 0 THEN sec ELSE Slice(sec, 0, DotAt(sec))
                  IN  out(SetField(SetField(SetField(R, "hour", Slice(tok, 0, 2)),
                            "minute", Slice(tok, 2, 4)), "second", whole), idx)
        ELSE IF n = 8
        THEN \* YYYYMMDD
             out(YmdAppendStr(YmdAppendStr(YmdAppendStr(R,
                   Slice(tok, 0, 4), "Y"), Slice(tok, 4, 6), "None"),
                   Slice(tok, 6, 8), "None"), idx)
        ELSE IF has(1) /\ at(1) \in {<<"-">>, <<"/">>, <<".">>}
        THEN \* 01-01[-01]
             LET sep == at(1)
                 R1  == YmdAppendStr(R, tok, "None")
             IN  IF has(2) /\ at(2) \notin JumpTokens
                 THEN IF ~IsDigits(at(2)) THEN out(Fail(R1), idx)
                      ELSE LET R2 == YmdAppendStr(R1, at(2), "None")
                           IN  IF has(3) /\ at(3) = sep
                               THEN IF ~has(4) THEN out(Fail(R2), idx)
                                    ELSE out(YmdAppendStr(R2, at(4), "None"), idx + 4)
                               ELSE out(R2, idx + 2)
                 ELSE out(R1, idx + 1)
        ELSE IF ~has(1) \/ at(1) \in JumpTokens
        THEN IF has(2) /\ IsAmPm(at(2))
             THEN out([R EXCEPT !.hour = AdjustAm(v)], idx + 2)
             ELSE out(YmdAppendNum(R, tok), idx + 1)
        ELSE IF IsAmPm(at(1)) /\ v < 24
        THEN out([R EXCEPT !.hour = AdjustAm(v)], idx + 1)
        ELSE IF v >= 1 /\ (v < 31 \/ (v = 31 /\ ~NumHasFrac(tok)))
        THEN \* ymd.could_be_day(value)
             out(YmdAppendNum(R, tok), idx)
        ELSE out(Fail(R), idx)

\* the sign-and-offset branch of parser._parse: l[i] is "-" after an hour
ParseTzOffset(l, i, R) ==
    IF i + 1 > Len(l) THEN [R |-> Fail(R), idx |-> i]
    ELSE
      LET o == l[i + 1]
          n == Len(o)
      IN  IF n = 4
          THEN IF IntOk(Slice(o, 0, 2)) /\ IntOk(Slice(o, 2, 4))
               THEN [R |-> [R EXCEPT !.tzoffset =
                              <<0 - (IntVal(Slice(o, 0, 2)) * 3600 + IntVal(Slice(o, 2, 4)) * 60)>>],
                     idx |-> i + 1]
               ELSE [R |-> Fail(R), idx |-> i]
          ELSE IF n <= 2
          THEN IF IntOk(o)
               THEN [R |-> [R EXCEPT !.tzoffset = <<0 - IntVal(o) * 3600>>], idx |-> i + 1]
               ELSE [R |-> Fail(R), idx |-> i]
          ELSE [R |-> Fail(R), idx |-> i]

\* the token loop of parser._parse from index i on
RECURSIVE ParseTokens(_, _, _)
RECURSIVE ParseAfter(_, _)
ParseTokens(l, i, R) ==
    IF ~R.ok \/ i > Len(l) THEN R
    ELSE IF IsFloat(l[i]) THEN ParseAfter(l, ParseNumericToken(l, i, R))
    ELSE IF IsAmPm(l[i])
    THEN \* _ampm_valid, then _adjust_ampm
         IF R.hour = -1 \/ R.hour > 12 THEN Fail(R)
         ELSE ParseTokens(l, i + 1, [R EXCEPT !.hour = AdjustAm(R.hour)])
    ELSE IF R.hour # -1 /\ l[i] = <<"-">> THEN ParseAfter(l, ParseTzOffset(l, i, R))
    ELSE IF l[i] \in JumpTokens THEN ParseTokens(l, i + 1, R)
    ELSE Fail(R)

\* the loop goes on after the index a token handler returned
ParseAfter(l, r) == ParseTokens(l, r.idx + 1, r.R)

\* _ymd.resolve_ymd(yearfirst=False, dayfirst): <<year, month, day>>, -1 for
\* None, or <<>> when it raises
ResolveYmd(R, dayfirst) ==
    LET y == R.ymd
        n == Len(y)
    IN  IF n = 0 THEN <<-1, -1, -1>>
        ELSE IF n = 1 /\ R.ystridx = 1 THEN <<y[1], -1, -1>>
        ELSE IF n > 3 THEN <<>>
        ELSE IF n = 1
        THEN IF y[1] > 31 THEN <<y[1], -1, -1>> ELSE <<-1, -1, y[1]>>
        ELSE IF n = 2
        THEN IF y[1] > 31 THEN <<y[1], y[2], -1>>
             ELSE IF y[2] > 31 THEN <<y[2], y[1], -1>>
             ELSE IF dayfirst /\ y[2] <= 12 THEN <<-1, y[2], y[1]>>
             ELSE <<-1, y[1], y[2]>>
        ELSE IF y[1] > 31 \/ R.ystridx = 1
        THEN IF dayfirst /\ y[3] <= 12 THEN <<y[1], y[3], y[2]>>
             ELSE <<y[1], y[2], y[3]>>
        ELSE IF y[1] > 12 \/ (dayfirst /\ y[2] <= 12)
        THEN <<y[3], y[2], y[1]>>
        ELSE <<y[3], y[1], y[2]>>

\* parserinfo.convertyear: a year below 100 without a century is moved to
\* within 50 years of the current year
ConvertYear(year, century_specified, this_year) ==
    IF year < 100 /\ ~century_specified
    THEN LET y1 == year + (this_year \div 100) * 100
         IN  IF y1 >= this_year + 50 THEN y1 - 100
             ELSE IF y1 < this_year - 50 THEN y1 + 100
             ELSE y1
    ELSE year

ParserError(msg, timestr) == Raised("ParserError", msg, TRUE, timestr)

\* default.replace(**repl): the fields must make a datetime
ReplaceDefault(year, month, day, hour, minute, second, tz, timestr) ==
    IF year < 1 \/ year > 9999 THEN ParserError("year is out of range", timestr)
    ELSE IF month < 1 \/ month > 12 THEN ParserError("month must be in 1..12", timestr)
    ELSE IF day < 1 \/ day > DaysInMonth(year, month)
    THEN ParserError("day is out of range for month", timestr)
    ELSE IF hour > 23 THEN ParserError("hour must be in 0..23", timestr)
    ELSE IF minute > 59 THEN ParserError("minute must be in 0..59", timestr)
    ELSE IF second > 59 THEN ParserError("second must be in 0..59", timestr)
    ELSE Returned(DateTime(year, month, day, hour, minute, second, tz))

\* -1 (None) is replaced by the default's value
OrDefault(v, default) == IF v = -1 THEN default ELSE v

\* parser._build_naive: a default day past the end of the month is clamped
BuildNaive(year, month, day, R, now, timestr) ==
    IF day = -1 /\ (month < 1 \/ month > 12)
    THEN \* calendar.monthrange raises before the replace
         ParserError("bad month number; must be 1-12", timestr)
    ELSE
    ReplaceDefault(year, month,
                   IF day = -1 /\ year >= 1 /\ year <= 9999 /\ month >= 1 /\ month <= 12
                      /\ now.day > DaysInMonth(year, month)
                   THEN DaysInMonth(year, month) ELSE OrDefault(day, now.day),
                   OrDefault(R.hour, 0), OrDefault(R.minute, 0), OrDefault(R.second, 0),
                   R.tzoffset, timestr)

\* parser.parse after _parse: ymd is what resolve_ymd gave
DateutilBuild(R, ymd, now, timestr) ==
    IF ymd = <<>> THEN ParserError("Unknown string format", timestr)
    ELSE IF ymd = <<-1, -1, -1>> /\ R.hour = -1
    THEN ParserError("String does not contain a date", timestr)
    ELSE BuildNaive(IF ymd[1] = -1 THEN now.year
                    ELSE ConvertYear(ymd[1], R.century, now.year),
                    OrDefault(ymd[2], now.month), ymd[3], R, now, timestr)

\* R: the parse state after the token loop
DateutilResolve(R, dayfirst, now, timestr) ==
    DateutilBuild(R, IF R.ok THEN ResolveYmd(R, dayfirst) ELSE <<>>, now, timestr)

\* dateutil.parser.parse(timestr, dayfirst=dayfirst) with default = now
DateutilParse(timestr, dayfirst, now) ==
    DateutilResolve(ParseTokens(Timelex(timestr, 1), 1, ParseState0), dayfirst, now, timestr)

----------------------------------------------------------------------------
(* DateFormatDetector and DateRangeHelper *)

\* re.match(r'^\d{4}-\d{2}-\d{2}$', date_str)
IsoStrict(s) ==
    /\ Len(s) = 10
    /\ s[5] = "-" /\ s[8] = "-"
    /\ \A i \in {1, 2, 3, 4, 6, 7, 9, 10} : s[i] \in Digits

\* the first format of fmts that strptime accepts for s: its outcome, or
\* NoValue when every format raises ValueError
RECURSIVE TryFormats(_, _)
TryFormats(s, fmts) ==
    IF fmts = <<>> THEN NoValue
    ELSE LET r == Strptime(s, fmts[1])
         IN  IF r.kind = "return" THEN r ELSE TryFormats(s, Tail(fmts))

\* the explicit formats with the month-first one ahead of the day-first one
ParseDateFormatsMonthFirst == <<"%Y-%m-%d", "%m/%d/%Y", "%d/%m/%Y", "%Y/%m/%d">>

ParseDateFormats == <<"%Y-%m-%d", "%d/%m/%Y", "%m/%d/%Y", "%Y/%m/%d">>

\* the formats of to_page_format with the month-first slash format ahead
ToPageFormatFormatsMonthFirst ==
    <<"%m/%d/%Y", "%d/%m/%Y", "%Y-%m-%d", "%d-%m-%Y", "%m-%d-%Y">>

ToPageFormatFormats == <<"%d/%m/%Y", "%m/%d/%Y", "%Y-%m-%d", "%d-%m-%Y", "%m-%d-%Y">>

\* a guess that lets the first field decide for three fields and listens to
\* the hint only otherwise
GuessDayfirstHintLast(hint, parts) ==
    IF Len(parts) = 3
    THEN IF ~IntOk(parts[1]) THEN "raise"
         ELSE IF IntVal(parts[1]) > 12 THEN "dayfirst" ELSE "monthfirst"
    ELSE IF hint = "DMY" THEN "dayfirst" ELSE "monthfirst"

\* the dayfirst argument parse_date computes for dateutil; "raise" when
\* int(parts[0]) raises
GuessDayfirst(hint, parts) ==
    IF hint # "None" THEN (IF hint = "DMY" THEN "dayfirst" ELSE "monthfirst")
    ELSE IF Len(parts) = 3
    THEN IF ~IntOk(parts[1]) THEN "raise"
         ELSE IF IntVal(parts[1]) > 12 THEN "dayfirst" ELSE "monthfirst"
    ELSE "monthfirst"

\* the fallback of parse_date: the dayfirst guess, then dateutil
ParseDateFallback(s, guess, now) ==
    IF guess = "raise"
    THEN Raised("ValueError", "invalid literal for int() with base 10", TRUE,
                ReSplit(s, Seps)[1])
    ELSE DateutilParse(s, guess = "dayfirst", now)

\* r: what the explicit formats gave
ParseDateAfterFormats(r, s, hint, now) ==
    IF r.kind = "return" THEN r
    ELSE ParseDateFallback(s, GuessDayfirst(hint, ReSplit(s, Seps)), now)

\* a parse_date that hands every text to dateutil with the dayfirst guess
parse_date_by_dateutil(s, hint, now) ==
    ParseDateFallback(s, GuessDayfirst(hint, ReSplit(s, Seps)), now)

\* a parse_date that lets a hint choose the one format to try
parse_date_hint_strict(s, hint, now) ==
    IF hint = "MDY" THEN Strptime(s, "%m/%d/%Y")
    ELSE IF hint = "DMY" THEN Strptime(s, "%d/%m/%Y")
    ELSE ParseDateAfterFormats(TryFormats(s, ParseDateFormats), s, hint, now)

\* a parse_date that knows the ISO and the day-first format only
parse_date_day_first_only(s, hint, now) ==
    IF IsoStrict(s) THEN Strptime(s, "%Y-%m-%d") ELSE Strptime(s, "%d/%m/%Y")

\* a parse_date whose ISO step, when it fails, gives way to the other strategies
parse_date_iso_falls_through(s, hint, now) ==
    ParseDateAfterFormats(TryFormats(s, ParseDateFormats), s, hint, now)

\* DateFormatDetector.parse_date(date_str, format_hint)
parse_date(s, hint, now) ==
    IF IsoStrict(s) THEN Strptime(s, "%Y-%m-%d")
    ELSE ParseDateAfterFormats(TryFormats(s, ParseDateFormats), s, hint, now)

\* a rendering with the formats of the two targets exchanged
ToPageFormatRenderExchanged(r, s, target, pads) ==
    IF r.kind # "return" THEN Returned(s)
    ELSE Returned(Strftime(r.value,
                           IF target = "MDY" THEN "%d/%m/%Y" ELSE "%m/%d/%Y", pads))

\* the second half of to_page_format: r is the parsed date or a raise
ToPageFormatRender(r, s, target, pads) ==
    IF r.kind # "return" THEN Returned(s)
    ELSE Returned(Strftime(r.value,
                           IF target = "MDY" THEN "%m/%d/%Y" ELSE "%d/%m/%Y", pads))

\* the parsing half of to_page_format: r is what the explicit formats gave
ToPageFormatParse(r, s, target, now) ==
    IF r.kind = "return" THEN r ELSE DateutilParse(s, target = "DMY", now)

\* DateFormatDetector.to_page_format(date_str, format)
to_page_format(s, target, now, pads) ==
    ToPageFormatRender(ToPageFormatParse(TryFormats(s, ToPageFormatFormats), s, target, now),
                       s, target, pads)

\* a rendering for the API that writes day-month-year
RenderForApiDayFirst(r, pads) ==
    IF r.kind # "return" THEN r ELSE Returned(Strftime(r.value, "%d-%m-%Y", pads))

\* dt.strftime("%Y-%m-%d") on what parse_date gave
RenderForApi(r, pads) ==
    IF r.kind # "return" THEN r ELSE Returned(Strftime(r.value, "%Y-%m-%d", pads))

\* DateFormatDetector.format_for_api(date_str)
format_for_api(s, now, pads) == RenderForApi(parse_date(s, "None", now), pads)

\* calls made one after the other: the first raise ends them, else the
\* values are returned together
FirstRaise(rs) ==
    IF \E k \in 1..Len(rs) : rs[k].kind # "return"
    THEN rs[CHOOSE k \in 1..Len(rs) :
              rs[k].kind # "return" /\ \A j \in 1..(k - 1) : rs[j].kind = "return"]
    ELSE Returned([k \in 1..Len(rs) |-> rs[k].value])

\* a parse_range that reads both boundaries under the field order the start
\* boundary suggests
parse_range_shared_order(s, e, now) ==
    FirstRaise([k \in 1..2 |->
        parse_date(IF k = 1 THEN s ELSE e,
                   IF GuessDayfirst("None", ReSplit(s, Seps)) = "dayfirst" THEN "DMY" ELSE "MDY",
                   now)])

\* DateRangeHelper.parse_range(start_str, end_str)
parse_range(s, e, now) ==
    FirstRaise([k \in 1..2 |-> parse_date(IF k = 1 THEN s ELSE e, "None", now)])

\* days from 0001-01-01 to the date, plus one (date.toordinal)
RECURSIVE DaysBeforeMonth(_, _)
DaysBeforeMonth(y, m) ==
    IF m = 1 THEN 0 ELSE DaysBeforeMonth(y, m - 1) + DaysInMonth(y, m - 1)

Ordinal(y, m, d) ==
    LET p == y - 1
    IN  365 * p + (p \div 4) - (p \div 100) + (p \div 400) + DaysBeforeMonth(y, m) + d

\* the instant of a datetime as <<day number, second of the day>>, shifted
\* to UTC by off seconds
Instant(a, off) ==
    LET sod == a.hour * 3600 + a.minute * 60 + a.second - off
    IN  <<Ordinal(a.year, a.month, a.day) + (sod \div 86400), sod % 86400>>

\* a <= b of datetime: two naive operands compare by their fields, two aware
\* ones by their UTC instants (an offset of a day or more makes utcoffset()
\* raise), and mixing naive and aware operands is a TypeError
CompareLeq(a, b) ==
    IF (a.tz = Naive) # (b.tz = Naive)
    THEN Raised("TypeError", "can't compare offset-naive and offset-aware datetimes",
                FALSE, <<>>)
    ELSE IF a.tz # Naive /\ a.tz # b.tz /\ (a.tz[1] <= -86400 \/ b.tz[1] <= -86400)
    THEN Raised("ValueError", "offset must be strictly between -24h and 24h", FALSE, <<>>)
    ELSE LET ka == Instant(a, IF a.tz = Naive THEN 0 ELSE a.tz[1])
             kb == Instant(b, IF b.tz = Naive THEN 0 ELSE b.tz[1])
         IN  Returned(ka[1] < kb[1] \/ (ka[1] = kb[1] /\ ka[2] <= kb[2]))

\* a <= b <= c of Python: b <= c is not evaluated when a <= b is false
ChainedLeq(c1, b, c) == IF c1.kind # "return" \/ ~c1.value THEN c1 ELSE CompareLeq(b, c)

\* a comparison that answers False when a boundary did not parse
InRangeSwallows(rd, rr) ==
    IF rd.kind # "return" THEN rd
    ELSE IF rr.kind # "return" THEN Returned(FALSE)
    ELSE ChainedLeq(CompareLeq(rr.value[1], rd.value), rd.value, rr.value[2])

\* a comparison that first rejects a start boundary later than the end
InRangeValidating(rd, rr) ==
    IF rd.kind # "return" THEN rd
    ELSE IF rr.kind # "return" THEN rr
    ELSE LET c == CompareLeq(rr.value[1], rr.value[2])
         IN  IF c.kind = "return" /\ ~c.value
             THEN Raised("ValueError", "start is after end", FALSE, <<>>)
             ELSE ChainedLeq(CompareLeq(rr.value[1], rd.value), rd.value, rr.value[2])

\* start <= date <= end on the parsed values
InRange(rd, rr) ==
    IF rd.kind # "return" THEN rd
    ELSE IF rr.kind # "return" THEN rr
    ELSE ChainedLeq(CompareLeq(rr.value[1], rd.value), rd.value, rr.value[2])

\* DateRangeHelper.is_date_in_range(date_str, start_str, end_str)
is_date_in_range(d, s, e, now) == InRange(parse_date(d, "None", now), parse_range(s, e, now))

\* a format_range_for_api that returns the boundaries in the other order
format_range_swapped(s, e, now, pads) ==
    FirstRaise([k \in 1..2 |-> format_for_api(IF k = 1 THEN e ELSE s, now, pads)])

\* DateRangeHelper.format_range_for_api(start_str, end_str)
format_range_for_api(s, e, now, pads) ==
    FirstRaise([k \in 1..2 |-> format_for_api(IF k = 1 THEN s ELSE e, now, pads)])

----------------------------------------------------------------------------
(* detect_page_date_format: the dates a page shows and their analysis *)

\* where pattern \d{1,2}SEP\d{1,2}SEP\d{4} matched at position i ends, 0 if
\* it does not match there (a greedy \d{1,2} that fails cannot succeed shorter)
MatchEnd(text, i, sep) ==
    LET n == Len(text)
        dig(k) == k <= n /\ text[k] \in Digits
        run(k) == IF dig(k) /\ dig(k + 1) THEN 2 ELSE IF dig(k) THEN 1 ELSE 0
        la == run(i)
        j  == i + la + 1
        lb == run(j)
        k  == j + lb + 1
    IN  IF la > 0 /\ i + la <= n /\ text[i + la] = sep
           /\ lb > 0 /\ j + lb <= n /\ text[j + lb] = sep
           /\ dig(k) /\ dig(k + 1) /\ dig(k + 2) /\ dig(k + 3)
        THEN k + 3 ELSE 0

\* re.findall(pattern, text): the non-overlapping matches from position i on
RECURSIVE FindAll(_, _, _)
FindAll(text, i, sep) ==
    IF i > Len(text) THEN <<>>
    ELSE LET e == MatchEnd(text, i, sep)
         IN  IF e = 0 THEN FindAll(text, i + 1, sep)
             ELSE <<SubSeq(text, i, e)>> \o FindAll(text, e + 1, sep)

\* an extraction that takes the element's whole text as the date
ExtractWholeText(text) == <<text>>

\* the matches of the three MDY_PATTERNS in one text, pattern by pattern
ExtractDates(text) == FindAll(text, 1, "/") \o FindAll(text, 1, "-") \o FindAll(text, 1, ".")

\* the elements of one selector, at most five of them: what they add to
\* dates_found before one of them raises (which ends the selector)
RECURSIVE ScanElements(_)
ScanElements(elements) ==
    IF elements = <<>> \/ elements[1].kind = "raise" THEN <<>>
    ELSE (IF elements[1].kind = "text" THEN ExtractDates(elements[1].text) ELSE <<>>)
         \o ScanElements(Tail(elements))

FirstFive(elements) == SubSeq(elements, 1, IF Len(elements) > 5 THEN 5 ELSE Len(elements))

\* the collection loop over the selectors
RECURSIVE CollectDates(_)
CollectDates(selectors) ==
    IF selectors = <<>> THEN <<>>
    ELSE (IF selectors[1].kind = "raise" THEN <<>>
          ELSE ScanElements(FirstFive(selectors[1].elements)))
         \o CollectDates(Tail(selectors))

\* an analysis loop that answers DMY when no date is decisive
RECURSIVE AnalyzeDatesDefaultDMY(_)
AnalyzeDatesDefaultDMY(found) ==
    IF found = <<>> THEN Returned("DMY")
    ELSE LET parts == ReSplit(found[1], Seps)
         IN  IF Len(parts) = 3 /\ IntVal(parts[1]) > 12 THEN Returned("DMY")
             ELSE IF Len(parts) = 3 /\ IntVal(parts[2]) > 12 THEN Returned("MDY")
             ELSE AnalyzeDatesDefaultDMY(Tail(found))

\* the analysis loop over dates_found
RECURSIVE AnalyzeDates(_)
AnalyzeDates(found) ==
    IF found = <<>> THEN Returned("MDY")
    ELSE LET parts == ReSplit(found[1], Seps)
         IN  IF Len(parts) = 3 /\ \E k \in 1..3 : ~IntOk(parts[k])
             THEN \* int(parts[k]) raises outside the try of the collection loop
                  Raised("ValueError", "invalid literal for int() with base 10", TRUE,
                         parts[CHOOSE k \in 1..3 : ~IntOk(parts[k])
                                                   /\ \A j \in 1..(k - 1) : IntOk(parts[j])])
             ELSE IF Len(parts) = 3 /\ IntVal(parts[1]) > 12 THEN Returned("DMY")
             ELSE IF Len(parts) = 3 /\ IntVal(parts[2]) > 12 THEN Returned("MDY")
             ELSE AnalyzeDates(Tail(found))

\* the sequence backwards
Reversed(q) == [k \in 1..Len(q) |-> q[Len(q) + 1 - k]]

\* a detection in which the last decisive date wins
detect_last_decisive(p) == AnalyzeDates(Reversed(CollectDates(p)))

\* DateFormatDetector.detect_page_date_format(page)
detect_page_date_format(p) == AnalyzeDates(CollectDates(p))

----------------------------------------------------------------------------
(* The inputs the operations are applied to *)

\* fields of the three-field texts: one- and two-digit day and month
\* spellings on both sides of 12, month ends, two- and four-digit years
Fields ==
    {<<"1">>, <<"0", "1">>, <<"0", "2">>, <<"1", "2">>, <<"1", "3">>,
     <<"2", "9">>, <<"3", "1">>, <<"3", "2">>, <<"2", "5">>,
     <<"2", "0", "2", "4">>, <<"2", "0", "2", "5">>, <<"0", "0", "0", "0">>}

\* fields of the texts with another number of fields
FewFields ==
    {<<"0", "1">>, <<"1", "3">>, <<"2", "5">>, <<"2", "0", "2", "5">>}

\* the field counts of the texts that do not have three fields
MaxFields == 4

RECURSIVE JoinFields(_, _)
JoinFields(fs, sep) ==
    IF Len(fs) = 1 THEN fs[1] ELSE fs[1] \o <<sep>> \o JoinFields(Tail(fs), sep)

ThreeFieldTexts ==
    {JoinFields(<<a, b, c>>, sep) : a \in Fields, b \in Fields, c \in Fields, sep \in Seps}

OtherCountTexts ==
    UNION {{JoinFields(fs, sep) : fs \in [1..n -> FewFields], sep \in Seps} :
           n \in (1..MaxFields) \ {3}}

\* texts with letters, with text around a date, and the empty text
OddTexts ==
    {<<"n", "o", "t", "-", "a", "-", "d", "a", "t", "e">>, <<"x">>,
     <<"d", "a", "t", "e">>, <<"1", "2", "a">>, <<"1", ".", "x">>,
     <<"2", "0", "2", "5", "-", "0", "1", "-", "1", "3", "x">>,
     <<"x", "2", "0", "2", "5", "-", "0", "1", "-", "1", "3">>,
     <<"t", "a", "/", "d", "e", "/", "2", "0", "2", "5">>,
     <<"0", "1", "/", "x", "x", "/", "2", "0", "2", "5">>,
     <<"2", "0", "2", "5", "-", "1", "-", "1", "3", ".", "5">>,
     <<"0", "9", "9", "9", "-", "0", "3", "-", "0", "8">>,
     <<"1", "/", "2", "/", "0", "1", "3">>,
     <<"0", "1", "/", "0", "2", "/", "0", "9", "9", "9">>}

Texts == ThreeFieldTexts \cup OtherCountTexts \cup OddTexts \cup {<<>>}

\* boundaries and dates given to the range operations
RangeTexts ==
    {<<"0", "1", "/", "0", "3", "/", "2", "0", "2", "5">>,
     <<"0", "8", "/", "0", "3", "/", "2", "0", "2", "5">>,
     <<"1", "5", "/", "0", "2", "/", "2", "0", "2", "5">>,
     <<"0", "1", "/", "0", "1", "/", "2", "0", "2", "5">>,
     <<"2", "8", "/", "0", "2", "/", "2", "0", "2", "5">>,
     <<"2", "0", "2", "5", "-", "0", "3", "-", "0", "8">>,
     <<"2", "0", "2", "5", "-", "0", "2", "-", "1", "5">>,
     <<"n", "o", "t", "-", "a", "-", "d", "a", "t", "e">>,
     <<"0", "1", "/", "0", "3", "/", "2", "5", "/", "1", "2">>,
     <<"0", "3", "/", "0", "1", "/", "2", "0", "2", "5">>,
     <<"0", "9", "9", "9", "-", "0", "3", "-", "0", "8">>,
     <<"0", "1", "/", "0", "3", "/", "2", "5", "/", "1", "2", "-", "0", "5">>}

Hints == {"None", "MDY", "DMY"}

Targets == {"MDY", "DMY"}

\* DATE_FORMATS "mdy", "dmy" and "iso"
DisplayFormats == {"%m/%d/%Y", "%d/%m/%Y", "%Y-%m-%d"}

\* the recent years of the dates that are rendered, beside 1000 and 9999
NumRecentYears == 2

DateYears == {1000, 9999} \cup (2024..(2023 + NumRecentYears))

DateDays == {1, 2, 12, 13, 28, 29, 30, 31}

Dates ==
    {Midnight(y, m, d) : <<y, m, d>> \in
        {t \in DateYears \X (1..12) \X DateDays : ValidYMD(t[1], t[2], t[3])}}

\* what datetime.now() may be when dateutil fills in what the text omits
Todays == {[year |-> 2026, month |-> 11, day |-> 2],
           [year |-> 2025, month |-> 1, day |-> 31]}

TextElement(t) == [kind |-> "text", text |-> t]

\* text_content() returned None
NoneElement == [kind |-> "none", text |-> <<>>]

\* text_content() raised
RaisingElement == [kind |-> "raise", text |-> <<>>]

ElementTexts ==
    {
     <<"P", "o", "s", "t", "e", "d", " ", "1", "3", "/", "0", "1", "/", "2", "0", "2", "5">>,
     <<"U", "p", "d", "a", "t", "e", "d", " ", "0", "2", "/", "0", "2", "/", "2", "0", "2", "5">>,
     <<"0", "1", "/", "1", "3", "/", "2", "0", "2", "5">>,
     <<"0", "2", "-", "0", "2", "-", "2", "0", "2", "5", " ", "2", "5", "/", "1", "2", "/", "2", "0", "2", "4">>,
     <<"3", ".", "1", "4", ".", "2", "0", "2", "5">>,
     <<"n", "o", " ", "d", "a", "t", "e", " ", "h", "e", "r", "e">>,
     <<"1", "1", "3", "/", "0", "1", "/", "2", "0", "2", "5", "5">>}

Elements == {TextElement(t) : t \in ElementTexts} \cup {NoneElement, RaisingElement}

Matched(elements) == [kind |-> "ok", elements |-> elements]

\* page.locator(selector).all() raised
RaisingSelector == [kind |-> "raise", elements |-> <<>>]

Ambiguous == TextElement(<<"U", "p", "d", "a", "t", "e", "d", " ", "0", "2", "/", "0", "2", "/", "2", "0", "2", "5">>)

Decisive == TextElement(<<"P", "o", "s", "t", "e", "d", " ", "1", "3", "/", "0", "1", "/", "2", "0", "2", "5">>)

\* what one selector can give: nothing, a raise, one or two elements, and
\* six elements of which the sixth is the only decisive one
SelectorResults ==
    {RaisingSelector, Matched(<<>>)}
    \cup {Matched(<<e>>) : e \in Elements}
    \cup {Matched(<<e, Decisive>>) : e \in Elements}
    \cup {Matched(<<Ambiguous, Ambiguous, Ambiguous, Ambiguous, Ambiguous, Decisive>>)}

\* the selectors list of detect_page_date_format has six entries
NumSelectors == 6

\* the number of leading selectors that match anything or raise
MaxLive == 2

Pages ==
    {[i \in 1..NumSelectors |-> IF i <= Len(live) THEN live[i] ELSE Matched(<<>>)] :
        live \in UNION {[1..n -> SelectorResults] : n \in 0..MaxLive}}

NoDate == [year |-> 0, month |-> 0, day |-> 0, hour |-> 0, minute |-> 0,
           second |-> 0, tz |-> Naive]

NoPage == [i \in 1..NumSelectors |-> Matched(<<>>)]

\* the date inputs of the transactions page before anything is typed
NothingFilled == [date_from_input |-> <<>>, date_to_input |-> <<>>]

----------------------------------------------------------------------------
(* The state machine: one action per operation of date_utils.py.  Nothing  *)
(* is kept between calls; the state is the arguments of the call that ran  *)
(* and its outcome.                                                        *)

\* retry_on_failure has not been called
RetryInit ==
    /\ max_attempts = 0
    /\ delay = 0
    /\ attempt = 0
    /\ last_error = NoValue
    /\ retry_log = <<>>
    /\ retry_pc = "idle"
    /\ retry_ret = NoValue

\* AltoroApiClient.__init__: no token, no Authorization header on the session
AuthInit ==
    /\ token = NoValue
    /\ session_auth = NoValue
    /\ tries = 0
    /\ auth_log = <<>>
    /\ auth_pc = "idle"
    /\ auth_ret = NoValue

\* the command has not started
RunInit ==
    /\ headless = FALSE
    /\ browser = "none"
    /\ context = "none"
    /\ run_page = 0
    /\ parts_run = <<>>
    /\ pending = NoValue
    /\ closed = <<>>
    /\ run_pc = "idle"
    /\ exit_status = -1

Init ==
    /\ page = NoPage
    /\ dt = NoDate
    /\ format = "none"
    /\ date_str = <<>>
    /\ start_str = <<>>
    /\ end_str = <<>>
    /\ format_hint = "None"
    /\ dates_found = <<>>
    /\ filled = NothingFilled
    /\ op = "none"
    /\ ret = NoValue
    /\ RetryInit
    /\ AuthInit
    /\ RunInit

\* detect_page_date_format(page)
DetectPageDateFormat ==
    /\ op = "none"
    /\ \E p \in Pages :
        /\ page' = p
        /\ dates_found' = CollectDates(p)
        /\ ret' = detect_page_date_format(p)
        /\ op' = "detect_page_date_format"
        /\ UNCHANGED <<filled, dt, format, date_str, start_str, end_str, format_hint>>
        /\ UNCHANGED <<retryVars, authVars, runVars>>

\* to_page_format(date_str, format)
ToPageFormat ==
    /\ op = "none"
    /\ \E s \in Texts, target \in Targets, now \in Todays, pads \in BOOLEAN :
        /\ date_str' = s
        /\ format' = target
        /\ ret' = to_page_format(s, target, now, pads)
        /\ op' = "to_page_format"
        /\ UNCHANGED <<filled, page, dt, start_str, end_str, format_hint,
                       dates_found>>
        /\ UNCHANGED <<retryVars, authVars, runVars>>

\* format_for_display(dt, format)
FormatForDisplay ==
    /\ op = "none"
    /\ \E d \in Dates, fmt \in DisplayFormats, pads \in BOOLEAN :
        /\ dt' = d
        /\ format' = fmt
        /\ ret' = Returned(Strftime(d, fmt, pads))
        /\ op' = "format_for_display"
        /\ UNCHANGED <<filled, page, date_str, start_str, end_str,
                       format_hint, dates_found>>
        /\ UNCHANGED <<retryVars, authVars, runVars>>

\* parse_date(date_str, format_hint), on a text of the caller or on the text
\* format_for_display has just returned
ParseDate ==
    /\ op \in {"none", "format_for_display"}
    /\ \E hint \in Hints, now \in Todays :
        /\ \E s \in (IF op = "none" THEN Texts ELSE {ret.value}) :
              /\ date_str' = s
              /\ ret' = parse_date(s, hint, now)
        /\ format_hint' = hint
        /\ op' = "parse_date"
        /\ UNCHANGED <<filled, page, dt, format, start_str, end_str,
                       dates_found>>
        /\ UNCHANGED <<retryVars, authVars, runVars>>

\* format_for_api(date_str)
FormatForApi ==
    /\ op = "none"
    /\ \E s \in Texts, now \in Todays, pads \in BOOLEAN :
        /\ date_str' = s
        /\ ret' = format_for_api(s, now, pads)
        /\ op' = "format_for_api"
        /\ UNCHANGED <<filled, page, dt, format, start_str, end_str,
                       format_hint, dates_found>>
        /\ UNCHANGED <<retryVars, authVars, runVars>>

\* DateRangeHelper.parse_range(start_str, end_str)
ParseRange ==
    /\ op = "none"
    /\ \E s \in RangeTexts, e \in RangeTexts, now \in Todays :
        /\ start_str' = s
        /\ end_str' = e
        /\ ret' = parse_range(s, e, now)
        /\ op' = "parse_range"
        /\ UNCHANGED <<filled, page, dt, format, date_str, format_hint,
                       dates_found>>
        /\ UNCHANGED <<retryVars, authVars, runVars>>

\* DateRangeHelper.is_date_in_range(date_str, start_str, end_str)
IsDateInRange ==
    /\ op = "none"
    /\ \E d \in RangeTexts, s \in RangeTexts, e \in RangeTexts, now \in Todays :
        /\ date_str' = d
        /\ start_str' = s
        /\ end_str' = e
        /\ ret' = is_date_in_range(d, s, e, now)
        /\ op' = "is_date_in_range"
        /\ UNCHANGED <<filled, page, dt, format, format_hint, dates_found>>
        /\ UNCHANGED <<retryVars, authVars, runVars>>

\* DateRangeHelper.format_range_for_api(start_str, end_str)
FormatRangeForApi ==
    /\ op = "none"
    /\ \E s \in RangeTexts, e \in RangeTexts, now \in Todays, pads \in BOOLEAN :
        /\ start_str' = s
        /\ end_str' = e
        /\ ret' = format_range_for_api(s, e, now, pads)
        /\ op' = "format_range_for_api"
        /\ UNCHANGED <<filled, page, dt, format, date_str, format_hint,
                       dates_found>>
        /\ UNCHANGED <<retryVars, authVars, runVars>>

\* lines 50-55 of apply_date_filter: both boundaries parsed with no hint, then
\* both rendered with "%Y-%m-%d"; r is what the two parse_date calls gave
ApplyDateFilterFormatted(r, pads) ==
    IF r.kind # "return" THEN r
    ELSE Returned([k \in 1..2 |-> Strftime(r.value[k], "%Y-%m-%d", pads)])

\* lines 58-62 of apply_date_filter: each input that is visible is filled
ApplyDateFilterFill(r, fromVisible, toVisible) ==
    IF r.kind # "return" THEN [filled |-> filled, ret |-> r]
    ELSE [filled |->
             [date_from_input |->
                 IF fromVisible THEN r.value[1] ELSE filled.date_from_input,
              date_to_input |->
                 IF toVisible THEN r.value[2] ELSE filled.date_to_input],
          ret |-> Returned("None")]

\* TransactionsPage.apply_date_filter(start_date, end_date)
ApplyDateFilter ==
    /\ op = "none"
    /\ \E s \in RangeTexts, e \in RangeTexts, now \in Todays, pads \in BOOLEAN,
          fromVisible \in BOOLEAN, toVisible \in BOOLEAN :
        /\ start_str' = s
        /\ end_str' = e
        /\ \E o \in {ApplyDateFilterFill(
                        ApplyDateFilterFormatted(
                            FirstRaise([k \in 1..2 |->
                                parse_date(IF k = 1 THEN s ELSE e, "None", now)]),
                            pads),
                        fromVisible, toVisible)} :
              /\ filled' = o.filled
              /\ ret' = o.ret
        /\ op' = "apply_date_filter"
        /\ UNCHANGED <<page, dt, format, date_str, format_hint, dates_found>>
        /\ UNCHANGED <<retryVars, authVars, runVars>>

Next ==
    \/ DetectPageDateFormat
    \/ ToPageFormat
    \/ FormatForDisplay
    \/ ParseDate
    \/ FormatForApi
    \/ ParseRange
    \/ IsDateInRange
    \/ FormatRangeForApi
    \/ ApplyDateFilter

Spec == Init /\ [][Next]_vars

----------------------------------------------------------------------------
(* Properties of parse_date *)

\* the fields of a text between slashes
SlashParts(s) == ReSplit(s, {"/"})

\* a/b/YYYY: three all-digit fields between slashes, the first two of one
\* or two digits, the last of four
IsSlashDate(s) ==
    /\ Len(SlashParts(s)) = 3
    /\ \A k \in 1..3 : IsDigits(SlashParts(s)[k])
    /\ Len(SlashParts(s)[1]) <= 2 /\ Len(SlashParts(s)[2]) <= 2
    /\ Len(SlashParts(s)[3]) = 4

FieldA(s) == DecVal(SlashParts(s)[1])
FieldB(s) == DecVal(SlashParts(s)[2])
FieldY(s) == DecVal(SlashParts(s)[3])

\* the year, month and day an ISO text YYYY-MM-DD spells
IsoYear(s) == DecVal(SubSeq(s, 1, 4))
IsoMonth(s) == DecVal(SubSeq(s, 6, 7))
IsoDay(s) == DecVal(SubSeq(s, 9, 10))

\* C1: for every text that matches the strict ISO pattern YYYY-MM-DD and
\* denotes a valid calendar date, parse_date returns exactly that year, month
\* and day whatever the format_hint (None, MDY or DMY).
C1_IsoIgnoresHint ==
    (op = "parse_date" /\ IsoStrict(date_str)
        /\ ValidYMD(IsoYear(date_str), IsoMonth(date_str), IsoDay(date_str)))
    => ret = Returned(Midnight(IsoYear(date_str), IsoMonth(date_str), IsoDay(date_str)))

\* an ISO text whose month and day could be swapped, parsed with hint DMY
C1_Witness ==
    /\ op = "parse_date" /\ format_hint = "DMY"
    /\ date_str = <<"2", "0", "2", "5", "-", "0", "1", "-", "1", "2">>
    /\ ret = Returned(Midnight(2025, 1, 12))

\* C2: round trip, month-first: for every valid date d with a four-digit
\* year, parse_date with format_hint MDY on d rendered as MM/DD/YYYY
\* returns d.
C2_RoundTripMDY ==
    (op = "parse_date" /\ format = "%m/%d/%Y" /\ format_hint = "MDY")
    => ret = Returned(dt)

\* C3: round trip, day-first: for every valid date d with a four-digit year,
\* parse_date with format_hint DMY on d rendered as DD/MM/YYYY returns d.
C3_RoundTripDMY ==
    (op = "parse_date" /\ format = "%d/%m/%Y" /\ format_hint = "DMY")
    => ret = Returned(dt)

\* 2 January 2025 rendered day-first as 02/01/2025 and parsed back
C3_Witness ==
    /\ op = "parse_date" /\ format = "%d/%m/%Y" /\ format_hint = "DMY"
    /\ dt = Midnight(2025, 1, 2)
    /\ date_str = <<"0", "2", "/", "0", "1", "/", "2", "0", "2", "5">>
    /\ ret = Returned(dt)

\* C4: round trip, ISO: for every valid date d with a four-digit year,
\* parse_date with no hint on d rendered as YYYY-MM-DD returns d.
C4_RoundTripISO ==
    (op = "parse_date" /\ format = "%Y-%m-%d" /\ format_hint = "None")
    => ret = Returned(dt)

\* 2 January 2025 rendered as 2025-01-02 and parsed back
C4_Witness ==
    /\ op = "parse_date" /\ format = "%Y-%m-%d" /\ format_hint = "None"
    /\ dt = Midnight(2025, 1, 2)
    /\ date_str = <<"2", "0", "2", "5", "-", "0", "1", "-", "0", "2">>
    /\ ret = Returned(dt)

\* YYYY-MM-DD, zero-padded
IsoText(y, m, d) == Pad(y, 4) \o <<"-">> \o Pad(m, 2) \o <<"-">> \o Pad(d, 2)

\* a/b/YYYY with both a and b in 1..12
IsAmbiguousSlashDate(s) ==
    /\ IsSlashDate(s)
    /\ FieldA(s) >= 1 /\ FieldA(s) <= 12
    /\ FieldB(s) >= 1 /\ FieldB(s) <= 12

\* C5: format_range_for_api reads ambiguous slash-separated boundaries
\* month-first: boundaries a/b/YYYY with a and b at most 12 are each rendered
\* as YYYY-a-b, zero-padded, so ("01/03/2025", "08/03/2025") gives
\* ("2025-01-03", "2025-08-03").
C5_RangeReadMonthFirst ==
    (op = "format_range_for_api"
        /\ IsAmbiguousSlashDate(start_str) /\ IsAmbiguousSlashDate(end_str))
    => ret = Returned(<<IsoText(FieldY(start_str), FieldA(start_str), FieldB(start_str)),
                        IsoText(FieldY(end_str), FieldA(end_str), FieldB(end_str))>>)

\* C6: for every text a/b/YYYY with a > 12 in which day a, month b and the
\* year make a valid date, parse_date returns (YYYY, b, a) for every
\* format_hint, None and MDY included.
C6_FirstAbove12IsDay ==
    (op = "parse_date" /\ IsSlashDate(date_str) /\ FieldA(date_str) > 12
        /\ ValidYMD(FieldY(date_str), FieldB(date_str), FieldA(date_str)))
    => ret = Returned(Midnight(FieldY(date_str), FieldB(date_str), FieldA(date_str)))

\* 13/01/2025 parsed with the hint MDY
C6_Witness ==
    /\ op = "parse_date" /\ format_hint = "MDY"
    /\ date_str = <<"1", "3", "/", "0", "1", "/", "2", "0", "2", "5">>
    /\ ret = Returned(Midnight(2025, 1, 13))

\* C7: for every text a/b/YYYY with a at most 12 and b > 12 in which month
\* a, day b and the year make a valid date, parse_date with no hint returns
\* (YYYY, a, b): the text is not rejected because the day-first reading has
\* a month above 12.
C7_SecondAbove12IsDay ==
    (op = "parse_date" /\ format_hint = "None" /\ IsSlashDate(date_str)
        /\ FieldA(date_str) <= 12 /\ FieldB(date_str) > 12
        /\ ValidYMD(FieldY(date_str), FieldA(date_str), FieldB(date_str)))
    => ret = Returned(Midnight(FieldY(date_str), FieldA(date_str), FieldB(date_str)))

\* 01/13/2025 parsed with no hint
C7_Witness ==
    /\ op = "parse_date" /\ format_hint = "None"
    /\ date_str = <<"0", "1", "/", "1", "3", "/", "2", "0", "2", "5">>
    /\ ret = Returned(Midnight(2025, 1, 13))

\* a text no reading resolves: it has a field that is not a number, or it
\* does not have three fields
IsGarbage(s) ==
    \/ Len(ReSplit(s, Seps)) # 3
    \/ \E k \in 1..Len(ReSplit(s, Seps)) : ~IsDigits(ReSplit(s, Seps)[k])

\* C8: when no strategy can resolve the text (non-numeric garbage such as
\* "not-a-date", or a wrong field count), parse_date ends in an error that
\* carries the offending input text, and never returns a date.
C8_GarbageRaisesWithInput ==
    (op = "parse_date" /\ IsGarbage(date_str))
    => (ret.kind = "raise" /\ ret.quoted /\ ret.arg = date_str)

----------------------------------------------------------------------------
(* Properties of detect_page_date_format *)

\* an extracted date has a > 12 or b > 12
IsDecisive(d) ==
    /\ Len(ReSplit(d, Seps)) = 3
    /\ (DecVal(ReSplit(d, Seps)[1]) > 12 \/ DecVal(ReSplit(d, Seps)[2]) > 12)

Classification(d) == IF DecVal(ReSplit(d, Seps)[1]) > 12 THEN "DMY" ELSE "MDY"

DecisiveIndexes == {k \in 1..Len(dates_found) : IsDecisive(dates_found[k])}

FirstDecisive == dates_found[CHOOSE k \in DecisiveIndexes : \A j \in DecisiveIndexes : k <= j]

\* C9: detection returns the classification of the first decisive extracted
\* triple (a, b, year), DMY when a > 12 and MDY when a is at most 12 and
\* b > 12: ambiguous triples before it are skipped and no triple after it
\* changes the result.
C9_FirstDecisiveWins ==
    (op = "detect_page_date_format" /\ DecisiveIndexes # {})
    => ret = Returned(Classification(FirstDecisive))

\* an ambiguous date, then a day-first one, then a month-first one
C9_Witness ==
    /\ op = "detect_page_date_format"
    /\ Len(dates_found) >= 3
    /\ ~IsDecisive(dates_found[1])
    /\ IsDecisive(dates_found[2]) /\ Classification(dates_found[2]) = "DMY"
    /\ IsDecisive(dates_found[3]) /\ Classification(dates_found[3]) = "MDY"
    /\ ret = Returned("DMY")

\* C10: detection returns MDY whenever no extracted triple is decisive: for
\* a page with no samples, for samples with no date in them, and for samples
\* whose every triple has both leading fields at most 12.
C10_DefaultIsMDY ==
    (op = "detect_page_date_format" /\ DecisiveIndexes = {})
    => ret = Returned("MDY")

\* dates were extracted and every one of them is ambiguous
C10_Witness ==
    /\ op = "detect_page_date_format"
    /\ dates_found # <<>> /\ DecisiveIndexes = {}
    /\ ret = Returned("MDY")

\* C11: format detection never ends in an error: for every page content,
\* selectors that raise while being queried and elements with empty text or
\* text that is no date included, detect_page_date_format returns MDY or DMY.
C11_DetectionAlwaysReturns ==
    op = "detect_page_date_format"
    => (ret.kind = "return" /\ ret.value \in {"MDY", "DMY"})

\* a page on which the first selector raised and the second gave an element
\* whose text has digits around a date, then a decisive one
C11_Witness ==
    /\ op = "detect_page_date_format"
    /\ page[1] = RaisingSelector
    /\ page[2] = Matched(<<TextElement(<<"1", "1", "3", "/", "0", "1", "/", "2", "0", "2", "5", "5">>),
                           Decisive>>)
    /\ ret = Returned("DMY")

----------------------------------------------------------------------------
(* Properties of the range operations *)

\* a <= b by year, then month, then day
YmdLeq(a, b) ==
    \/ a.year < b.year
    \/ a.year = b.year /\ a.month < b.month
    \/ a.year = b.year /\ a.month = b.month /\ a.day <= b.day

\* what parse_date gives for a text alone, with no hint
Alone(s, now) == parse_date(s, "None", now)

\* the three arguments of is_date_in_range all parse
AllThreeParse(now) ==
    /\ Alone(date_str, now).kind = "return"
    /\ Alone(start_str, now).kind = "return"
    /\ Alone(end_str, now).kind = "return"

\* C12: is_date_in_range(date, start, end) returns true exactly when
\* start <= date <= end, the three parsed values compared by year, month and
\* day only; inputs that denote the same calendar day compare equal, so a
\* date on the end day is in range.
C12_InRangeByCalendarDay ==
    op = "is_date_in_range"
    => \E now \in Todays :
          AllThreeParse(now)
          => ret = Returned(YmdLeq(Alone(start_str, now).value, Alone(date_str, now).value)
                            /\ YmdLeq(Alone(date_str, now).value, Alone(end_str, now).value))

\* the errors of parsing: ValueError and dateutil's ParserError, its subclass
ParseErrors == {"ValueError", "ParserError"}

NotADate == <<"n", "o", "t", "-", "a", "-", "d", "a", "t", "e">>

\* C13: is_date_in_range ends in a parse error, and returns no boolean,
\* whenever one of its three inputs cannot be parsed, whichever it is.
C13_InRangeRaisesOnBadInput ==
    op = "is_date_in_range"
    => \A now \in Todays :
          ~AllThreeParse(now) => (ret.kind = "raise" /\ ret.exc \in ParseErrors)

\* the date and the start parse, the end does not
C13_Witness ==
    /\ op = "is_date_in_range"
    /\ end_str = NotADate /\ date_str # NotADate /\ start_str # NotADate
    /\ \A now \in Todays : Alone(date_str, now).kind = "return"
                             /\ Alone(start_str, now).kind = "return"
    /\ ret.kind = "raise"

\* the zero-padded YYYY-MM-DD rendering of a parsed date
IsoOf(v) == IsoText(v.year, v.month, v.day)

BothBoundariesParse(now) ==
    Alone(start_str, now).kind = "return" /\ Alone(end_str, now).kind = "return"

----------------------------------------------------------------------------
(* Properties of the formatting operations *)

\* two two-digit fields and a four-digit year between slashes
SlashText(a, b, y) == Pad(a, 2) \o <<"/">> \o Pad(b, 2) \o <<"/">> \o Pad(y, 4)

\* the date to_page_format parses out of date_str when datetime.now() is now
PageParse(now) ==
    ToPageFormatParse(TryFormats(date_str, ToPageFormatFormats), date_str, format, now)

\* the zero-padded rendering of a date for the target of the call
PageText(v) ==
    IF format = "MDY" THEN SlashText(v.month, v.day, v.year)
    ELSE SlashText(v.day, v.month, v.year)

\* to_page_format returned the padded rendering of what it parsed, for the
\* dates with a year of at least minYear
PageRenderingFrom(minYear) ==
    \/ \A now \in Todays : PageParse(now).kind # "return"
    \/ \E now \in Todays :
          /\ PageParse(now).kind = "return"
          /\ PageParse(now).value.year >= minYear => ret = Returned(PageText(PageParse(now).value))

\* format_for_api returned the padded ISO rendering of what it parsed
ApiRenderingFrom(minYear) ==
    \/ \A now \in Todays : Alone(date_str, now).kind # "return"
    \/ \E now \in Todays :
          /\ Alone(date_str, now).kind = "return"
          /\ Alone(date_str, now).value.year >= minYear
             => ret = Returned(IsoOf(Alone(date_str, now).value))

----------------------------------------------------------------------------
(* Properties of error propagation *)

\* the text arguments of the call that ran cannot all be parsed
UnparseableArgument ==
    CASE op = "parse_date" ->
           \A now \in Todays : parse_date(date_str, format_hint, now).kind # "return"
      [] op = "to_page_format" ->
           \A now \in Todays : PageParse(now).kind # "return"
      [] op = "format_for_api" ->
           \A now \in Todays : Alone(date_str, now).kind # "return"
      [] op \in {"parse_range", "format_range_for_api"} ->
           \A now \in Todays : ~BothBoundariesParse(now)
      [] op = "is_date_in_range" ->
           \A now \in Todays : ~AllThreeParse(now)
      [] OTHER -> FALSE

\* C16: no operation other than format detection swallows a failure: when
\* parse_date, to_page_format, format_for_api, parse_range, is_date_in_range
\* or format_range_for_api is given text that cannot be parsed, the call ends
\* in an error and never returns a normal value.
C16_NoFailureSwallowed ==
    UnparseableArgument => ret.kind = "raise"

\* C17: invalid calendar values are rejected, never reinterpreted: for text
\* of the strict ISO shape YYYY-MM-DD whose month is outside 1..12 or whose
\* day is invalid for that month (2025-13-01, 2025-02-31), parse_date ends
\* in an error for every hint and returns no date.
C17_InvalidIsoRejected ==
    (op = "parse_date" /\ IsoStrict(date_str)
        /\ (\/ IsoMonth(date_str) < 1 \/ IsoMonth(date_str) > 12
            \/ IsoDay(date_str) < 1
            \/ IsoDay(date_str) > DaysInMonth(IsoYear(date_str), IsoMonth(date_str))))
    => ret.kind = "raise"

\* 2025-13-01, which a day-first reading would accept, parsed with hint DMY
C17_Witness ==
    /\ op = "parse_date" /\ format_hint = "DMY"
    /\ date_str = <<"2", "0", "2", "5", "-", "1", "3", "-", "0", "1">>
    /\ ret.kind = "raise" /\ ret.exc = "ValueError"

\* three all-digit fields of which the first two have one or two digits and
\* the last, the year, has two
HasTwoDigitYear(s) ==
    /\ Len(ReSplit(s, Seps)) = 3
    /\ \A k \in 1..3 : IsDigits(ReSplit(s, Seps)[k])
    /\ Len(ReSplit(s, Seps)[1]) <= 2 /\ Len(ReSplit(s, Seps)[2]) <= 2
    /\ Len(ReSplit(s, Seps)[3]) = 2

\* C18: parse_date performs no normalization of two-digit years: for text
\* whose year field has two digits (01/03/25) no strategy maps it to a
\* four-digit year, so the call does not return a date in 19xx or 20xx.
C18_NoTwoDigitYearNormalization ==
    (op = "parse_date" /\ HasTwoDigitYear(date_str))
    => ~(ret.kind = "return" /\ ret.value.year >= 1900 /\ ret.value.year <= 2099)

\* C19: parse_range resolves each boundary independently and with no hint:
\* parse_range(s, e) = (parse_date(s, None), parse_date(e, None)), so the
\* date of one boundary is the same whatever the other boundary is, even when
\* the two are read under different field orders.
C19_BoundariesParsedAlone ==
    op = "parse_range"
    => \A now \in Todays :
          BothBoundariesParse(now)
          => ret = Returned(<<Alone(start_str, now).value, Alone(end_str, now).value>>)

\* a start that is read day-first and an end that is read month-first
C19_Witness ==
    /\ op = "parse_range"
    /\ start_str = <<"1", "5", "/", "0", "2", "/", "2", "0", "2", "5">>
    /\ end_str = <<"0", "1", "/", "0", "3", "/", "2", "5", "/", "1", "2">>
    /\ ret.kind = "return"
    /\ ret.value[1].day = 15 /\ ret.value[1].month = 2
    /\ ret.value[2].month = 1 /\ ret.value[2].day = 3

\* the start boundary parses to a later calendar day than the end boundary
StartAfterEnd(now) ==
    /\ BothBoundariesParse(now)
    /\ ~YmdLeq(Alone(start_str, now).value, Alone(end_str, now).value)

\* none of the three parsed values carries a UTC offset
AllThreeNaive(now) ==
    /\ Alone(date_str, now).value.tz = Naive
    /\ Alone(start_str, now).value.tz = Naive
    /\ Alone(end_str, now).value.tz = Naive

\* parse_range and format_range_for_api return the pair of a reversed range
ReversedRangeReturned ==
    op \in {"parse_range", "format_range_for_api"}
    => \A now \in Todays : StartAfterEnd(now) => ret.kind = "return"

----------------------------------------------------------------------------
(* Purity of the operations *)

\* what the operation of the state returns for the arguments of the state
\* when it runs on the day now, on a platform whose strftime pads the year
\* or not
CallAt(now, pads) ==
    CASE op = "parse_date" -> parse_date(date_str, format_hint, now)
      [] op = "to_page_format" -> to_page_format(date_str, format, now, pads)
      [] op = "format_for_api" -> format_for_api(date_str, now, pads)
      [] op = "parse_range" -> parse_range(start_str, end_str, now)
      [] op = "is_date_in_range" -> is_date_in_range(date_str, start_str, end_str, now)
      [] op = "format_range_for_api" -> format_range_for_api(start_str, end_str, now, pads)
      [] OTHER -> ret

\* C21: the parsing, formatting and range operations are pure functions of
\* their arguments: whatever else runs and whenever the call is made, a call
\* returns what the same call with equal arguments returns, so the result of
\* the call of the state is the result of that call on every other day.
C21_EqualArgumentsEqualResults ==
    \E pads \in BOOLEAN : \A now \in Todays : ret = CallAt(now, pads)

\* C22: every value parse_date returns is a pure calendar date: its time of
\* day is midnight and it carries no UTC offset, whichever strategy produced
\* it, the dateutil fallback included.
C22_NoTimeOfDay ==
    (op = "parse_date" /\ ret.kind = "return")
    => /\ ret.value.hour = 0 /\ ret.value.minute = 0 /\ ret.value.second = 0
       /\ ret.value.tz = Naive

----------------------------------------------------------------------------
(* The page form *)

\* the text is the MM/DD/YYYY or the DD/MM/YYYY rendering of the date the
\* boundary s parses to
IsPageRendering(text, s) ==
    \E now \in Todays, pads \in BOOLEAN, target \in Targets :
        /\ Alone(s, now).kind = "return"
        /\ text = Strftime(Alone(s, now).value,
                           IF target = "MDY" THEN "%m/%d/%Y" ELSE "%d/%m/%Y", pads)

\* C23: the strings filled into the page's date-range input fields are
\* month-first (MM/DD/YYYY) or day-first (DD/MM/YYYY) renderings of the
\* boundaries, as the convention detected on the page asks.
C23_FilledInPageConvention ==
    op = "apply_date_filter"
    => /\ filled.date_from_input # <<>>
          => IsPageRendering(filled.date_from_input, start_str)
       /\ filled.date_to_input # <<>>
          => IsPageRendering(filled.date_to_input, end_str)

----------------------------------------------------------------------------
(* The order of the strategies of parse_date *)

\* the whole of s is a date in the format: three fields between the
\* format's separators, four digits for the year, one or two for the others
IsWholeDate(s, fmt) ==
    LET parts == ReSplit(s, {FmtSep(fmt)})
    IN  /\ Len(parts) = 3
        /\ \A k \in 1..3 :
              /\ IsDigits(parts[k])
              /\ IF FmtOrder(fmt)[k] = "Y" THEN Len(parts[k]) = 4
                 ELSE Len(parts[k]) \in {1, 2}

\* s is a whole date in none of the explicit formats
NoFormatFits(s) ==
    \A k \in 1..Len(ParseDateFormats) : ~IsWholeDate(s, ParseDateFormats[k])

\* C24: the explicit formats are tried in a fixed order, day-first slash
\* before month-first slash, and the first full parse wins: a text a/b/YYYY
\* with a and b in 1..12 is parsed as day a, month b for every format_hint,
\* MDY included; and a partial match is never accepted: a text that is not
\* as a whole a date in an explicit format gets what the generic parse
\* gives, an error included.
C24_DayFirstBeforeMonthFirst ==
    op = "parse_date"
    => /\ (IsAmbiguousSlashDate(date_str) /\ FieldY(date_str) >= 1)
          => ret = Returned(Midnight(FieldY(date_str), FieldB(date_str),
                                     FieldA(date_str)))
       /\ NoFormatFits(date_str)
          => \E now \in Todays :
                ret = ParseDateFallback(date_str,
                          GuessDayfirst(format_hint, ReSplit(date_str, Seps)), now)

\* 01/02/2025 parsed with the hint MDY is 1 February
C24_Witness ==
    /\ op = "parse_date" /\ format_hint = "MDY"
    /\ date_str = <<"0", "1", "/", "0", "2", "/", "2", "0", "2", "5">>
    /\ ret = Returned(Midnight(2025, 2, 1))

\* neither the strict-ISO step nor an explicit format accepts s
ReachesGenericParse(s) ==
    ~IsoStrict(s) /\ TryFormats(s, ParseDateFormats).kind # "return"

\* the choice is made: with no hint and three fields, the first field is an
\* integer (int() of anything else raises before the generic parse)
ChoiceIsMade(s, hint) ==
    (hint = "None" /\ Len(ReSplit(s, Seps)) = 3) => IntOk(ReSplit(s, Seps)[1])

\* the day-first choice: the hint when there is one, else the first of
\* exactly three fields being above 12, else month-first
ExpectedDayFirst(s, hint) ==
    IF hint # "None" THEN hint = "DMY"
    ELSE Len(ReSplit(s, Seps)) = 3 /\ IntVal(ReSplit(s, Seps)[1]) > 12

\* C25: for text that neither the strict-ISO step nor any explicit format
\* accepts, the generic parse runs day-first iff the hint is DMY when a hint
\* is given; otherwise, when splitting on "/", "-" or "." gives exactly
\* three fields, iff the first field is greater than 12; otherwise
\* month-first.
C25_DayFirstChoice ==
    (op = "parse_date" /\ ReachesGenericParse(date_str)
        /\ ChoiceIsMade(date_str, format_hint))
    => \E now \in Todays :
          ret = DateutilParse(date_str, ExpectedDayFirst(date_str, format_hint), now)

\* 01-02-2025 with the hint DMY is read day-first by the generic parse
C25_Witness ==
    /\ op = "parse_date" /\ format_hint = "DMY"
    /\ date_str = <<"0", "1", "-", "0", "2", "-", "2", "0", "2", "5">>
    /\ ReachesGenericParse(date_str)
    /\ ret = Returned(Midnight(2025, 2, 1))

----------------------------------------------------------------------------
(* Algebraic properties of the formatting operations *)

\* a and b are parsed values on the same calendar day
SameDay(a, b) ==
    /\ a.kind = "return" /\ b.kind = "return"
    /\ a.value.year = b.value.year /\ a.value.month = b.value.month
    /\ a.value.day = b.value.day

\* format_for_api applied to its own result gives that result again, and
\* the result parses to the calendar day the argument parses to; stated for
\* the arguments that parse to a year from minYear on, on the day now, with
\* the platform's strftime (pads)
ApiFixedPointFrom(minYear, now, pads) ==
    (/\ ret = format_for_api(date_str, now, pads)
     /\ ret.kind = "return"
     /\ Alone(date_str, now).value.year >= minYear)
    => \A again \in Todays :
          /\ format_for_api(ret.value, again, pads) = ret
          /\ SameDay(Alone(ret.value, again), Alone(date_str, now))

IsPaddedAmbiguous(s) ==
    /\ IsAmbiguousSlashDate(s)
    /\ Len(SlashParts(s)[1]) = 2 /\ Len(SlashParts(s)[2]) = 2

\* to_page_format on aa/bb/YYYY with a year from minYear on: target MDY
\* gives bb/aa/YYYY, and given that again it returns the original; target
\* DMY returns the text unchanged
SwapsFrom(minYear) ==
    (op = "to_page_format" /\ IsPaddedAmbiguous(date_str)
        /\ FieldY(date_str) >= minYear)
    => IF format = "MDY"
       THEN /\ ret = Returned(SlashText(FieldB(date_str), FieldA(date_str),
                                        FieldY(date_str)))
            /\ \A now \in Todays, pads \in BOOLEAN :
                  to_page_format(ret.value, "MDY", now, pads) = Returned(date_str)
       ELSE ret = Returned(date_str)

----------------------------------------------------------------------------
(* BasePage.retry_on_failure(func, max_attempts, delay)                    *)

\* the largest max_attempts retry_on_failure is called with
MaxAttempts == 3

\* the delay arguments, in milliseconds
Delays == {0, 1000}

\* what one call of func can do: return a value, raise an Exception, or
\* raise a BaseException that is no Exception
FuncOutcomes ==
    {Returned("result"), Returned("None")}
    \cup {Raised(e, "", FALSE, <<>>) :
             e \in {"TimeoutError", "ValueError", "KeyboardInterrupt"}}

\* except Exception as e: what the handler of the loop catches
IsException(o) == o.kind = "raise" /\ o.exc # "KeyboardInterrupt"

\* the entries of retry_log
FuncCalled(o) == [event |-> "func", outcome |-> o]

Waited(ms) == [event |-> "wait", delay |-> ms]

\* a handler that waits after every failed attempt, the last one included
WaitsAfterEvery(i, n) == TRUE

\* if attempt < max_attempts - 1
WaitsBeforeNext(i, n) == i < n - 1

\* the call, up to the loop: last_error = None
RetryOnFailure ==
    /\ retry_pc = "idle"
    /\ \E n \in -1..MaxAttempts, ms \in Delays :
          /\ max_attempts' = n
          /\ delay' = ms
    /\ attempt' = 0
    /\ last_error' = NoValue
    /\ retry_pc' = "loop"
    /\ UNCHANGED <<retry_log, retry_ret>>
    /\ UNCHANGED <<dateVars, authVars, runVars>>

\* one iteration of the loop: func() returns, and so does retry_on_failure;
\* or it raises an Exception, which is kept, and the handler waits when
\* another attempt follows; or it raises something else, which propagates
RetryAttempt ==
    /\ retry_pc = "loop"
    /\ attempt < max_attempts
    /\ \E o \in FuncOutcomes :
          /\ retry_log' =
                Append(retry_log, FuncCalled(o))
                \o (IF IsException(o) /\ WaitsBeforeNext(attempt, max_attempts)
                    THEN <<Waited(delay)>> ELSE <<>>)
          /\ IF IsException(o)
             THEN /\ last_error' = o
                  /\ attempt' = attempt + 1
                  /\ UNCHANGED <<retry_pc, retry_ret>>
             ELSE /\ retry_ret' = o
                  /\ retry_pc' = "done"
                  /\ UNCHANGED <<attempt, last_error>>
    /\ UNCHANGED <<max_attempts, delay>>
    /\ UNCHANGED <<dateVars, authVars, runVars>>

\* after the loop: if last_error: raise last_error; else None is returned
RetryExhausted ==
    /\ retry_pc = "loop"
    /\ attempt >= max_attempts
    /\ retry_ret' = IF last_error # NoValue THEN last_error ELSE Returned("None")
    /\ retry_pc' = "done"
    /\ UNCHANGED <<max_attempts, delay, attempt, last_error, retry_log>>
    /\ UNCHANGED <<dateVars, authVars, runVars>>

NextRetry ==
    \/ RetryOnFailure
    \/ RetryAttempt
    \/ RetryExhausted

SpecRetry == Init /\ [][NextRetry]_vars

\* the positions in retry_log of the calls of func
FuncIndexes == {i \in 1..Len(retry_log) : retry_log[i].event = "func"}

\* the last call of func so far
LastFunc == retry_log[CHOOSE i \in FuncIndexes : \A j \in FuncIndexes : j <= i]

\* func is invoked at most max_attempts times
AtMostMaxAttempts ==
    Cardinality(FuncIndexes) <= (IF max_attempts > 0 THEN max_attempts ELSE 0)

\* a call of func that returns is the last thing that happens, and its
\* result is the result of retry_on_failure
FirstSuccessReturned ==
    \A i \in FuncIndexes :
        retry_log[i].outcome.kind = "return"
        => /\ i = Len(retry_log)
           /\ retry_pc = "done"
           /\ retry_ret = retry_log[i].outcome

\* a wait takes delay, follows a failed call of func and is followed by the
\* next call; two calls have a wait between them
WaitsOnlyBetweenAttempts ==
    /\ \A i \in 1..Len(retry_log) :
          retry_log[i].event = "wait"
          => /\ retry_log[i].delay = delay
             /\ i > 1 /\ retry_log[i - 1].event = "func"
             /\ IF i < Len(retry_log) THEN retry_log[i + 1].event = "func"
                ELSE retry_pc = "loop" /\ attempt < max_attempts
    /\ \A i \in FuncIndexes : i > 1 => retry_log[i - 1].event = "wait"

\* when the last call of func raised, retry_on_failure raises that error,
\* and an Exception is given up on only at the last of max_attempts calls
LastErrorRaised ==
    (retry_pc = "done" /\ FuncIndexes # {} /\ LastFunc.outcome.kind = "raise")
    => /\ retry_ret = LastFunc.outcome
       /\ IsException(LastFunc.outcome)
          => Cardinality(FuncIndexes) = max_attempts

----------------------------------------------------------------------------
(* AltoroApiClient.authenticate, decorated with                           *)
(* backoff.on_exception(backoff.expo, requests.RequestException,          *)
(* max_tries=3)                                                            *)

\* the calls of authenticate made on one client
MaxCalls == 3

\* max_tries of the decorator
MaxTries == 3

Response(status, body) == [kind |-> "response", status |-> status, body |-> body]

\* what self.session.post can do: answer 200 with a JSON object that has a
\* token or has none, answer 200 with a body that is no JSON, answer with
\* another status, or raise a requests.RequestException
PostOutcomes ==
    {Response(200, "token"), Response(200, "no token"), Response(200, "not json"),
     Response(401, "none"), Response(500, "none")}
    \cup {Raised(e, "", FALSE, <<>>) : e \in {"ConnectionError", "Timeout"}}

\* the classes of requests.RequestException among the errors of the model
IsRequestException(o) ==
    o.kind = "raise" /\ o.exc \in {"ConnectionError", "Timeout", "JSONDecodeError"}

\* the body of authenticate on what the post did: with status 200 and a JSON
\* body the token is kept and put on the session, True is returned; every
\* other status gives False; every exception is caught and gives False
AuthenticateBody(o) ==
    IF o.kind = "response" /\ o.status = 200 /\ o.body # "not json"
    THEN [ret |-> Returned(TRUE),
          token |-> Returned(IF o.body = "token" THEN "tok" ELSE ""),
          session_auth |-> Returned(<<"Bearer", IF o.body = "token" THEN "tok" ELSE "">>)]
    ELSE [ret |-> Returned(FALSE), token |-> token, session_auth |-> session_auth]

\* the decorator on the outcome r of the body at try number n: an exception
\* of the given class is retried after a sleep until max_tries is reached
BackoffRetries(r, n) == IsRequestException(r) /\ n < MaxTries

\* the entries of auth_log
Called == [event |-> "authenticate"]

Posted(o) == [event |-> "post", outcome |-> o]

Slept == [event |-> "sleep"]

\* the calls of authenticate so far
CallIndexes == {i \in 1..Len(auth_log) : auth_log[i].event = "authenticate"}

\* client.authenticate(username, password): the decorator starts its loop
Authenticate ==
    /\ auth_pc = "idle"
    /\ Cardinality(CallIndexes) < MaxCalls
    /\ tries' = 0
    /\ auth_log' = Append(auth_log, Called)
    /\ auth_pc' = "try"
    /\ UNCHANGED <<token, session_auth, auth_ret>>
    /\ UNCHANGED <<dateVars, retryVars, runVars>>

\* one pass of the decorator's loop: the body runs, and its outcome is
\* returned to the caller, or retried after a sleep
AuthenticateTry ==
    /\ auth_pc = "try"
    /\ tries' = tries + 1
    /\ \E o \in PostOutcomes :
          /\ token' = AuthenticateBody(o).token
          /\ session_auth' = AuthenticateBody(o).session_auth
          /\ IF BackoffRetries(AuthenticateBody(o).ret, tries + 1)
             THEN /\ auth_log' = auth_log \o <<Posted(o), Slept>>
                  /\ UNCHANGED <<auth_pc, auth_ret>>
             ELSE /\ auth_log' = Append(auth_log, Posted(o))
                  /\ auth_ret' = AuthenticateBody(o).ret
                  /\ auth_pc' = "idle"
    /\ UNCHANGED <<dateVars, retryVars, runVars>>

NextAuth ==
    \/ Authenticate
    \/ AuthenticateTry

SpecAuth == Init /\ [][NextAuth]_vars

\* the posts of the call of authenticate that was made last
PostsOfLastCall ==
    {i \in 1..Len(auth_log) :
        /\ auth_log[i].event = "post"
        /\ \A c \in CallIndexes : c < i}

\* C27: authenticate has retry logic: when the login request raises a
\* requests.RequestException, authenticate is attempted again with
\* exponential backoff, up to 3 tries in total, before it gives up; so a
\* call that ended on a request that raised has made 3 tries.
C27_AuthenticateRetries ==
    (/\ auth_pc = "idle"
     /\ auth_log # <<>>
     /\ IsRequestException(auth_log[Len(auth_log)].outcome))
    => Cardinality(PostsOfLastCall) = MaxTries

----------------------------------------------------------------------------
(* main.py: the run command and run_automation                             *)

\* the workflows of run_automation, Part 1 to Part 6
NumParts == 6

\* the exceptions a statement of run_automation can raise
RunErrors ==
    {Raised(e, "", FALSE, <<>>) : e \in {"TimeoutError", "PermissionError", "ValueError"}}

\* what a statement can do: complete, or raise
StepOutcomes == {NoValue} \cup RunErrors

\* a workflow that has been started, with the page it was given
PartRun(k, pg) == [part |-> k, page |-> pg]

\* a clean-up that closes the browser before the context
CleanUpBrowserFirst == <<"browser", "context">>

\* the finally clause: context.close(), then browser.close()
CleanUp == <<"context", "browser">>

\* the run command is invoked
Run ==
    /\ run_pc = "idle"
    /\ headless' \in BOOLEAN
    /\ run_pc' = "excel"
    /\ UNCHANGED <<browser, context, run_page, parts_run, pending, closed, exit_status>>
    /\ UNCHANGED <<dateVars, retryVars, authVars>>

\* lines 29-33: the Excel writer is made; an exception leaves run_automation
NewExcelWriter ==
    /\ run_pc = "excel"
    /\ \E o \in StepOutcomes :
          /\ pending' = o
          /\ run_pc' = IF o = NoValue THEN "launch" ELSE "run_except"
    /\ UNCHANGED <<headless, browser, context, run_page, parts_run, closed, exit_status>>
    /\ UNCHANGED <<dateVars, retryVars, authVars>>

\* lines 35-40: playwright.chromium.launch
Launch ==
    /\ run_pc = "launch"
    /\ \E o \in StepOutcomes :
          /\ pending' = o
          /\ browser' = IF o = NoValue THEN "open" ELSE browser
          /\ run_pc' = IF o = NoValue THEN "new_context" ELSE "run_except"
    /\ UNCHANGED <<headless, context, run_page, parts_run, closed, exit_status>>
    /\ UNCHANGED <<dateVars, retryVars, authVars>>

\* lines 43-50: browser.new_context
NewContext ==
    /\ run_pc = "new_context"
    /\ \E o \in StepOutcomes :
          /\ pending' = o
          /\ context' = IF o = NoValue THEN "open" ELSE context
          /\ run_pc' = IF o = NoValue THEN "new_page" ELSE "run_except"
    /\ UNCHANGED <<headless, browser, run_page, parts_run, closed, exit_status>>
    /\ UNCHANGED <<dateVars, retryVars, authVars>>

\* line 53: context.new_page; the try statement is entered after it
NewPage ==
    /\ run_pc = "new_page"
    /\ \E o \in StepOutcomes :
          /\ pending' = o
          /\ run_page' = IF o = NoValue THEN 1 ELSE run_page
          /\ run_pc' = IF o = NoValue THEN "part" ELSE "run_except"
    /\ UNCHANGED <<headless, browser, context, parts_run, closed, exit_status>>
    /\ UNCHANGED <<dateVars, retryVars, authVars>>

\* lines 56-101: the next workflow is made with the page and run
RunPart ==
    /\ run_pc = "part"
    /\ parts_run' = Append(parts_run, PartRun(Len(parts_run) + 1, run_page))
    /\ \E o \in StepOutcomes :
          /\ pending' = o
          /\ run_pc' = IF o # NoValue THEN "except"
                       ELSE IF Len(parts_run) + 1 = NumParts THEN "save"
                       ELSE "part"
    /\ UNCHANGED <<headless, browser, context, run_page, closed, exit_status>>
    /\ UNCHANGED <<dateVars, retryVars, authVars>>

\* lines 103-122: the workbook is saved and the summary printed
SaveAndSummary ==
    /\ run_pc = "save"
    /\ \E o \in StepOutcomes :
          /\ pending' = o
          /\ run_pc' = IF o = NoValue THEN "finally" ELSE "except"
    /\ UNCHANGED <<headless, browser, context, run_page, parts_run, closed, exit_status>>
    /\ UNCHANGED <<dateVars, retryVars, authVars>>

\* lines 124-127: the exception is printed, logged and raised again
Except ==
    /\ run_pc = "except"
    /\ run_pc' = "finally"
    /\ UNCHANGED <<headless, browser, context, run_page, parts_run, pending, closed,
                   exit_status>>
    /\ UNCHANGED <<dateVars, retryVars, authVars>>

\* lines 128-131: the clean-up; then the exception in flight, if any, goes on
Finally ==
    /\ run_pc = "finally"
    /\ closed' = closed \o CleanUp
    /\ context' = "closed"
    /\ browser' = "closed"
    /\ run_pc' = IF pending # NoValue THEN "run_except" ELSE "run_return"
    /\ UNCHANGED <<headless, run_page, parts_run, pending, exit_status>>
    /\ UNCHANGED <<dateVars, retryVars, authVars>>

\* lines 141-143: run catches the exception and calls sys.exit(1)
RunExcept ==
    /\ run_pc = "run_except"
    /\ exit_status' = 1
    /\ run_pc' = "exited"
    /\ UNCHANGED <<headless, browser, context, run_page, parts_run, pending, closed>>
    /\ UNCHANGED <<dateVars, retryVars, authVars>>

\* run_automation returned: the command ends with status 0
RunReturn ==
    /\ run_pc = "run_return"
    /\ exit_status' = 0
    /\ run_pc' = "exited"
    /\ UNCHANGED <<headless, browser, context, run_page, parts_run, pending, closed>>
    /\ UNCHANGED <<dateVars, retryVars, authVars>>

NextRun ==
    \/ Run
    \/ NewExcelWriter
    \/ Launch
    \/ NewContext
    \/ NewPage
    \/ RunPart
    \/ SaveAndSummary
    \/ Except
    \/ Finally
    \/ RunExcept
    \/ RunReturn

SpecRun == Init /\ [][NextRun]_vars

\* the workflows started are Part 1, 2, ... in that order, each on the page
\* of new_page
PartsInOrderOnOnePage ==
    \A i \in 1..Len(parts_run) :
        parts_run[i].part = i /\ parts_run[i].page = run_page /\ run_page # 0

\* nothing is closed while the try block runs; once it has been left, by
\* completion or by an exception, the context and then the browser have
\* been closed, before the exception goes on and before the command ends
ClosedOnEveryPath ==
    /\ run_pc \in {"part", "save", "except", "finally"} => closed = <<>>
    /\ (run_page # 0 /\ run_pc \in {"run_except", "run_return", "exited"})
       => /\ closed = <<"context", "browser">>
          /\ context = "closed" /\ browser = "closed"

\* an exception is still in flight after the clean-up and ends the command
\* with status 1; without one all six parts have run
ExceptionExitsWithOne ==
    /\ run_pc \in {"except", "run_except"} => pending # NoValue
    /\ run_pc = "run_return" => pending = NoValue
    /\ run_pc = "exited"
       => /\ pending # NoValue => exit_status = 1
          /\ pending = NoValue => Len(parts_run) = NumParts /\ exit_status = 0

====
